---- MODULE Spec2Model ----
(***************************************************************************)
(* Model of AlteryxToBigQueryAgent (src/agent2.py): the regex parser of    *)
(* the workflow document, the per-tool loop of convert_alteryx_to_sql with *)
(* its schema and CTE-name cursors, the call of the generation service,    *)
(* and the assembly of the final view script; and of the /convert endpoint *)
(* of the web server (src/main2.py) that calls it.                         *)
(*                                                                         *)
(* Text is modelled as a sequence of tokens.  A token is a record          *)
(*   [k, s, n, id]: kind, text, number, tool identifier.                   *)
(* Whitespace between tokens is not modelled, except the whitespace that   *)
(* str.strip() removes from a generated snippet (token WS) and the blank   *)
(* line that joins the CTE steps (token BLANK).                            *)
(***************************************************************************)
EXTENDS Integers, Sequences, FiniteSets, TLC

\* ------------------------------------------------------------------ bounds
\* Largest number of <Node> elements in an input document.
MaxNodes == 2
\* Largest number of <Field> elements in a Select node of the projection inputs.
MaxFields == 2

\* ------------------------------------------------------------- identifiers
\* A ToolID attribute is a string of characters: zeros is the number of
\* leading 0 characters, digits the characters that follow them, a decimal
\* digit as its value 0..9 and any other character as NonDigit.
NoId == [zeros |-> 0, digits |-> <<>>]

\* A character that \d does not match.
NonDigit == 10

\* The attribute matches \d+: one or more characters, all decimal digits.
IsNumericId(id) ==
    /\ id.zeros + Len(id.digits) >= 1
    /\ \A j \in 1..Len(id.digits) : id.digits[j] \in 0..9

MkId(z, ds) == [zeros |-> z, digits |-> ds]

\* Number of characters of the identifier string.
IdLen(id) == id.zeros + Len(id.digits)

\* CPython's default limit on the length of a decimal string given to int().
INT_MAX_STR_DIGITS == 4300

\* int(x[toolId]): the numeric value of the digit string.
RECURSIVE IntOfDigits(_)
IntOfDigits(ds) ==
    IF ds = <<>> THEN 0
    ELSE 10 * IntOfDigits(SubSeq(ds, 1, Len(ds) - 1)) + ds[Len(ds)]

IntOf(id) == IntOfDigits(id.digits)

\* int() raises ValueError on a longer string, on the interpreters that
\* enforce the limit.
IntTooLong(id) == IdLen(id) > INT_MAX_STR_DIGITS

\* ------------------------------------------------------------------ tokens
Tok(k, s, n, id) == [k |-> k, s |-> s, n |-> n, id |-> id]

Lit(s) == Tok("lit", s, 0, NoId)

\* A column name.
Col(s) == Tok("col", s, 0, NoId)

\* Text produced by the generation service.
Frag(s) == Tok("frag", s, 0, NoId)

\* str(e) of an exception raised by the generation service.
ErrText(s) == Tok("err", s, 0, NoId)

\* A tool identifier interpolated into a message.
IdTok(id) == Tok("id", "", 0, id)

\* Whitespace at either end of the service's response text.
WS == Lit(" ")

\* The blank line between two CTE steps.
BLANK == Lit("\n\n")

\* The newline between two narrative lines.
NL == Lit("\n")

\* The name of the implicit source node.
SourceData == Tok("name", "source_data", 0, NoId)

\* f"cte_{n}"
CteName(n) == Tok("name", "cte_", n, NoId)

FROM == Lit("FROM")

PLACEHOLDER_TABLE == Lit("your_project.your_dataset.your_initial_table")

\* sep.join(parts), parts a sequence of token sequences.
RECURSIVE Join(_, _)
Join(sep, parts) ==
    IF parts = <<>> THEN <<>>
    ELSE IF Len(parts) = 1 THEN parts[1]
    ELSE parts[1] \o <<sep>> \o Join(sep, Tail(parts))

\* text.replace("FROM source_data", "FROM <placeholder table path>")
RECURSIVE ReplaceSource(_)
ReplaceSource(text) ==
    IF Len(text) < 2 THEN text
    ELSE IF text[1] = FROM /\ text[2] = SourceData
         THEN <<FROM, PLACEHOLDER_TABLE>> \o ReplaceSource(SubSeq(text, 3, Len(text)))
         ELSE <<text[1]>> \o ReplaceSource(Tail(text))

\* text.strip()
RECURSIVE Strip(_)
Strip(text) ==
    IF text = <<>> THEN <<>>
    ELSE IF text[1] = WS THEN Strip(Tail(text))
    ELSE IF text[Len(text)] = WS THEN Strip(SubSeq(text, 1, Len(text) - 1))
    ELSE text

\* The set of tokens of a text.
Toks(text) == {text[j] : j \in 1..Len(text)}

\* ------------------------------------------------------------------ schema
\* A schema is a dict in insertion order: a sequence of [name, type].
None == "<None>"

SeedSchema ==
    << [name |-> "OrderID", type |-> "STRING"],
       [name |-> "CustomerName", type |-> "STRING"],
       [name |-> "ProductCategory", type |-> "STRING"],
       [name |-> "SalesAmount", type |-> "FLOAT"] >>

\* schema.keys()
Keys(schema) == [j \in 1..Len(schema) |-> schema[j].name]

HasKey(schema, name) == \E j \in 1..Len(schema) : schema[j].name = name

\* schema.get(name, "UNKNOWN")
Get(schema, name) ==
    IF HasKey(schema, name)
    THEN schema[CHOOSE j \in 1..Len(schema) : schema[j].name = name].type
    ELSE "UNKNOWN"

\* schema[name] = type: an existing key keeps its place, a new key goes last.
SetItem(schema, name, type) ==
    IF HasKey(schema, name)
    THEN [j \in 1..Len(schema) |->
            IF schema[j].name = name THEN [name |-> name, type |-> type] ELSE schema[j]]
    ELSE Append(schema, [name |-> name, type |-> type])

\* ", ".join(schema.keys())
ColumnList(schema) == Join(Lit(","), [j \in 1..Len(schema) |-> <<Col(schema[j].name)>>])

\* ---------------------------------------------------------------- document
\* An input document: whether the <AlteryxWorkflow> container is absent,
\* present with nothing inside, or present with content, and the <Node>
\* elements inside it in document order.  A node is
\*   [toolId, type, fields, expression]
\* with fields the <Field> elements (Name, Selected and Rename attributes as
\* written) and expression the text of its <Expression> element, None when
\* the node has none.
SeqsUpTo(S, n) == UNION {[1..k -> S] : k \in 0..n}

\* One <Field Name=... Selected=... [Rename=...] /> match.
ParseField(f) ==
    [name |-> f.name,
     selected |-> (f.selected = "True"),
     rename |-> IF f.rename # None THEN f.rename ELSE None]

\* The descriptor appended for a match of select_regex.
SelectTool(node) ==
    [type |-> "Select", toolId |-> node.toolId,
     fields |-> [j \in 1..Len(node.fields) |-> ParseField(node.fields[j])],
     expression |-> None, xml_snippet |-> node]

\* The descriptor appended for a match of filter_regex.
FilterTool(node) ==
    [type |-> "Filter", toolId |-> node.toolId,
     fields |-> <<>>,
     expression |-> node.expression, xml_snippet |-> node]

IsSelectNode(node) == node.type = "Select" /\ IsNumericId(node.toolId)

IsFilterNode(node) == node.type = "Filter" /\ IsNumericId(node.toolId)

\* Mutant: a descriptor is collected for every node, whatever its kind and
\* identifier.
ExtractToolsOfAnyKind(nodes) ==
    [j \in 1..Len(nodes) |->
        IF nodes[j].type = "Select" THEN SelectTool(nodes[j])
        ELSE [FilterTool(nodes[j]) EXCEPT !.type = nodes[j].type]]

\* The two finditer loops: every Select match, then every Filter match.
ExtractTools(nodes) ==
    LET selects == SelectSeq(nodes, IsSelectNode)
        filters == SelectSeq(nodes, IsFilterNode)
    IN  [j \in 1..Len(selects) |-> SelectTool(selects[j])]
            \o [j \in 1..Len(filters) |-> FilterTool(filters[j])]

\* Mutant: the tools are ordered on the first character of the identifier
\* string.
SortKeyFirstChar(tool) ==
    IF tool.toolId.zeros > 0 THEN 0 ELSE tool.toolId.digits[1]

\* The sort key, int(x[toolId]).
SortKey(tool) == IntOf(tool.toolId)

\* Mutant: insertion in front of the elements of equal key.
RECURSIVE InsertSortedInFront(_, _)
InsertSortedInFront(tool, sorted) ==
    IF sorted = <<>> THEN <<tool>>
    ELSE IF SortKey(sorted[1]) < SortKey(tool)
         THEN <<sorted[1]>> \o InsertSortedInFront(tool, Tail(sorted))
         ELSE <<tool>> \o sorted

\* Insertion into a sorted list behind every element whose key is not larger.
RECURSIVE InsertSorted(_, _)
InsertSorted(tool, sorted) ==
    IF sorted = <<>> THEN <<tool>>
    ELSE IF SortKey(sorted[1]) <= SortKey(tool)
         THEN <<sorted[1]>> \o InsertSorted(tool, Tail(sorted))
         ELSE <<tool>> \o sorted

\* Mutant: the list is left in extraction order.
SortToolsSkipped(tools) == tools

\* tools.sort(key=...): list.sort is stable.
RECURSIVE SortTools(_)
SortTools(tools) ==
    IF tools = <<>> THEN <<>>
    ELSE InsertSorted(tools[Len(tools)], SortTools(SubSeq(tools, 1, Len(tools) - 1)))

ERROR_PREFIX == Lit("Error:")

PARSED_MSG == <<Lit("XML parsed successfully. Beginning conversion...")>>

INVALID_MSG ==
    <<ERROR_PREFIX, Lit("Invalid Alteryx Workflow XML structure. Please ensure it is wrapped in <AlteryxWorkflow> tags.")>>

NO_TOOLS_MSG ==
    <<Lit("No recognizable Select or Filter tools found in the provided XML. I can only process these for now.")>>

\* Mutant: an empty tool list is reported as the structural error.
parse_alteryx_xml_strict(doc) ==
    LET tools == IF doc.container # "present" THEN <<>>
                 ELSE SortTools(ExtractTools(doc.nodes))
    IN  [tools |-> tools,
         message |-> IF tools = <<>> THEN INVALID_MSG ELSE PARSED_MSG]

\* _parse_alteryx_xml when it returns: (tools, message).
parse_alteryx_xml(doc) ==
    IF doc.container # "present"
    THEN [tools |-> <<>>, message |-> INVALID_MSG]
    ELSE LET tools == SortTools(ExtractTools(doc.nodes))
         IN  [tools |-> tools,
              message |-> IF tools = <<>> THEN NO_TOOLS_MSG ELSE PARSED_MSG]

\* _parse_alteryx_xml can raise: the sort key of some extracted tool is a
\* digit string longer than the interpreter's limit for int().
ParseCanRaise(doc) ==
    /\ doc.container = "present"
    /\ \E j \in 1..Len(doc.nodes) :
          /\ IsSelectNode(doc.nodes[j]) \/ IsFilterNode(doc.nodes[j])
          /\ IntTooLong(doc.nodes[j].toolId)

\* -------------------------------------------------------------- conversion
\* f[rename] if f[rename] else f[name]
OutputName(f) == IF f.rename # None THEN f.rename ELSE f.name

IsSelected(f) == f.selected

\* Mutant: the type is looked up under the output name of the field.
RECURSIVE ProjectIntoByOutputName(_, _, _)
ProjectIntoByOutputName(out, schema, select_fields) ==
    IF select_fields = <<>> THEN out
    ELSE ProjectIntoByOutputName(SetItem(out, OutputName(select_fields[1]),
                                         Get(schema, OutputName(select_fields[1]))),
                                 schema, Tail(select_fields))

\* The loop over select_fields that fills step_output_schema.
RECURSIVE ProjectInto(_, _, _)
ProjectInto(out, schema, select_fields) ==
    IF select_fields = <<>> THEN out
    ELSE ProjectInto(SetItem(out, OutputName(select_fields[1]),
                             Get(schema, select_fields[1].name)),
                     schema, Tail(select_fields))

\* Mutant: the fields are not filtered on selected.
ProjectUnfiltered(schema, fields) == ProjectInto(<<>>, schema, fields)

\* step_output_schema of a Select tool.
Project(schema, fields) == ProjectInto(<<>>, schema, SelectSeq(fields, IsSelected))

\* Mutant: step_output_schema is reset and refilled for every tool.
StepOutputSchemaReset(tool, current_schema) == Project(current_schema, tool.fields)

\* step_output_schema of a tool: a copy of current_schema unless the tool is
\* a Select.
StepOutputSchema(tool, current_schema) ==
    IF tool.type = "Select" THEN Project(current_schema, tool.fields)
    ELSE current_schema

NoPrompt == [kind |-> "", cte |-> SourceData, schema |-> <<>>, xml_snippet |-> <<>>]

\* Mutant: every prompt describes the seed schema.
PromptOnSeed(tool, current_cte_name, current_schema) ==
    [kind |-> tool.type, cte |-> current_cte_name,
     schema |-> SeedSchema, xml_snippet |-> <<tool.xml_snippet>>]

\* The prompt text: which of the two templates, and the three values
\* interpolated into it.
Prompt(tool, current_cte_name, current_schema) ==
    [kind |-> tool.type, cte |-> current_cte_name,
     schema |-> current_schema, xml_snippet |-> <<tool.xml_snippet>>]

ProcessingMessage(tool) ==
    <<Lit("Agent: Processing"), Lit(tool.type), Lit("Tool (ID:"), IdTok(tool.toolId), Lit(")...")>>

UnsupportedResult(tool) ==
    [sql |-> <<>>,
     message |-> <<Lit("Agent: I do not recognize or support the Alteryx tool type:"),
                   Lit(tool.type), Lit("(ToolID:"), IdTok(tool.toolId),
                   Lit(") yet. I can only convert Select and Filter tools.")>>]

FAILED_PREFIX == Lit("Agent: Failed to generate SQL for ToolID")

\* Mutant: the name is numbered with the 0-based index.
NextCteNameZeroBased(i) == CteName(i)

\* next_cte_name = f"cte_{i + 1}", i the 0-based index of the tool.
NextCteName(i) == CteName(i + 1)

\* cols_to_select of a Filter step.
ColsToSelect(step_output_schema) == ColumnList(step_output_schema)

\* The string appended to sql_steps.
StepSql(tool, next_cte_name, prev_cte_for_step, snippet, step_output_schema) ==
    IF tool.type = "Select"
    THEN <<Lit("WITH"), next_cte_name, Lit("AS (")>> \o snippet
             \o <<FROM, prev_cte_for_step, Lit(")")>>
    ELSE <<Lit("WITH"), next_cte_name, Lit("AS ("), Lit("SELECT")>>
             \o ColsToSelect(step_output_schema)
             \o <<FROM, prev_cte_for_step>> \o snippet \o <<Lit(")")>>

VIEW_HEADER == Lit("CREATE OR REPLACE VIEW your_project.your_dataset.your_view_name AS")

SUCCESS_MSG ==
    <<Lit("Agent: Conversion completed successfully! Please review the generated SQL.")>>

NO_STEPS_MSG ==
    <<Lit("Agent: I processed the XML but could not generate any SQL steps. Please check your XML content.")>>

\* Mutant: the closing SELECT lists the columns of the seed schema.
FinalSqlSeedColumns(sql_steps, final_output_schema, current_cte_name) ==
    <<VIEW_HEADER>> \o ReplaceSource(Join(BLANK, sql_steps))
        \o <<Lit("SELECT")>> \o ColumnList(SeedSchema)
        \o <<FROM, current_cte_name, Lit(";")>>

\* final_sql of a non-empty sql_steps.
FinalSql(sql_steps, final_output_schema, current_cte_name) ==
    <<VIEW_HEADER>> \o ReplaceSource(Join(BLANK, sql_steps))
        \o <<Lit("SELECT")>> \o ColumnList(final_output_schema)
        \o <<FROM, current_cte_name, Lit(";")>>

\* Mutant: the narrative is returned without its closing line.
AssembleResultNoClosing(sql_steps, final_output_schema, current_cte_name, agent_messages) ==
    [sql |-> IF sql_steps # <<>>
             THEN FinalSql(sql_steps, final_output_schema, current_cte_name)
             ELSE <<>>,
     message |-> Join(NL, agent_messages)]

\* Lines 181-203: the returned result.
AssembleResult(sql_steps, final_output_schema, current_cte_name, agent_messages) ==
    IF sql_steps # <<>>
    THEN [sql |-> FinalSql(sql_steps, final_output_schema, current_cte_name),
          message |-> Join(NL, Append(agent_messages, SUCCESS_MSG))]
    ELSE [sql |-> <<>>, message |-> Join(NL, Append(agent_messages, NO_STEPS_MSG))]

\* ---------------------------------------------------- generation service
\* What model.generate_content does on one call: it returns a response
\* whose text is text, or it raises an exception e with str(e) = err.
NoErr == ErrText("")

GenTexts ==
    { <<WS, Frag("snippet_a"), WS>>,
      <<Frag("snippet_b"), FROM, SourceData>> }

GenErrors == {ErrText("service unavailable")}

Responses ==
    {[ok |-> TRUE, text |-> t, err |-> NoErr] : t \in GenTexts}
        \cup {[ok |-> FALSE, text |-> <<>>, err |-> e] : e \in GenErrors}

\* _generate_sql_snippet when the service returns: response.text.strip().
generate_sql_snippet(response) == Strip(response.text)

\* ------------------------------------------------------------------ inputs
Ids ==
    { MkId(0, <<2>>), MkId(1, <<2>>), MkId(0, <<1, 0>>),
      MkId(INT_MAX_STR_DIGITS, <<1>>) }

RawField(name, selected, rename) ==
    [name |-> name, selected |-> selected, rename |-> rename]

\* The Select node of the example workflow in agent2.py.
ExampleFields ==
    << RawField("OrderID", "True", "transaction_id"),
       RawField("CustomerName", "True", None),
       RawField("ProductCategory", "False", None),
       RawField("SalesAmount", "True", "total_sales") >>

\* A Select node that keeps two columns of the seed schema under new names.
RenameFields ==
    << RawField("OrderID", "True", "transaction_id"),
       RawField("SalesAmount", "True", "total_sales") >>

\* A Select node that renames one column to the name of a column it drops.
SwapFields ==
    << RawField("SalesAmount", "True", "OrderID"),
       RawField("OrderID", "False", None),
       RawField("CustomerName", "true", None) >>

Bodies ==
    { [fields |-> ExampleFields, expression |-> "[total_sales] > 1000"],
      [fields |-> SwapFields, expression |-> None] }

\* A node of either recognized kind with either body, or a node of a kind
\* the parser has no regex for.
Nodes ==
    { [toolId |-> id, type |-> t, fields |-> b.fields, expression |-> b.expression] :
        id \in Ids, t \in {"Select", "Filter"}, b \in Bodies }
        \cup { [toolId |-> id, type |-> "Join", fields |-> <<>>, expression |-> None] :
                 id \in Ids }

Doc(container, nodes) == [container |-> container, nodes |-> nodes]

Docs ==
    {Doc("absent", <<>>), Doc("empty", <<>>)}
        \cup {Doc("present", ns) : ns \in SeqsUpTo(Nodes, MaxNodes)}

\* ------------------------------------------------------------------- state
\* The agent instance serves the calls of Conv.  Each call of
\* convert_alteryx_to_sql has its own frame of locals, indexed by the call.
Conv == {1, 2}

VARIABLES
    pc,                     \* where each call is
    doc,                    \* alteryx_xml
    tools, parse_message,
    current_schema, sql_steps, current_cte_name, agent_messages,
    final_output_schema,
    i,                      \* index of the loop, 0-based
    step_output_schema, prompt, generated_sql_snippet,
    result,                 \* the returned dictionary, once pc = "Done"
    calls,                  \* the prompts each call has sent to the service
    responses,              \* what the service answered to each of them
    assembled,              \* whether the call ran the assembly (lines 181-203)
    agent_initialised,      \* whether alteryx_converter_instance is defined
    request,                \* the HTTP request that made the call, if any
    http                    \* the HTTP response to it, status 0 until it is sent

locals ==
    <<tools, parse_message, current_schema, sql_steps, current_cte_name,
      agent_messages, final_output_schema, i, step_output_schema, prompt,
      generated_sql_snippet>>

\* The state of the web server of main2.py.
front == <<agent_initialised, request, http>>

vars == <<pc, doc, locals, result, calls, responses, assembled, front>>

NoResult == [sql |-> <<>>, message |-> <<>>]

\* The frames before anything has run.
InitFrames ==
    /\ tools = [c \in Conv |-> <<>>]
    /\ parse_message = [c \in Conv |-> <<>>]
    /\ current_schema = [c \in Conv |-> <<>>]
    /\ sql_steps = [c \in Conv |-> <<>>]
    /\ current_cte_name = [c \in Conv |-> SourceData]
    /\ agent_messages = [c \in Conv |-> <<>>]
    /\ final_output_schema = [c \in Conv |-> <<>>]
    /\ i = [c \in Conv |-> 0]
    /\ step_output_schema = [c \in Conv |-> <<>>]
    /\ prompt = [c \in Conv |-> NoPrompt]
    /\ generated_sql_snippet = [c \in Conv |-> <<>>]
    /\ result = [c \in Conv |-> NoResult]
    /\ calls = [c \in Conv |-> <<>>]
    /\ responses = [c \in Conv |-> <<>>]
    /\ assembled = [c \in Conv |-> FALSE]

\* A request body: whether it is JSON, and the value of its alteryx_xml key,
\* a document, the empty string, or None when the key is missing.
NoXml == Doc("<None>", <<>>)

EmptyXml == Doc("<empty string>", <<>>)

NoRequest == [is_json |-> FALSE, alteryx_xml |-> NoXml]

\* jsonify(...), status: the keys of the JSON object and their values.
Response(status, keys, sql, message) ==
    [status |-> status, keys |-> keys, sql |-> sql, message |-> message]

NoResponse == Response(0, {}, <<>>, <<>>)

\* The calls are made directly on an agent instance, not through the server.
NoFront ==
    /\ agent_initialised = TRUE
    /\ request = [c \in Conv |-> NoRequest]
    /\ http = [c \in Conv |-> NoResponse]

\* One call of convert_alteryx_to_sql on any document; no second call.
Init ==
    /\ pc = [c \in Conv |-> IF c = 1 THEN "Parsing" ELSE "Idle"]
    /\ doc \in {[c \in Conv |-> IF c = 1 THEN d ELSE Doc("absent", <<>>)] : d \in Docs}
    /\ InitFrames
    /\ NoFront

\* ----------------------------------------------------------------- actions
Upd(f, c, v) == [f EXCEPT ![c] = v]

\* The tool of the current iteration, tools[i].
Tool(c) == tools[c][i[c] + 1]

\* The result returned when no tool was parsed (line 99).
EmptyResult(message) == [sql |-> <<>>, message |-> message]

\* Mutant: the except branch returns the CTE steps built so far.
FailureResultPartial(tool, err) ==
    [sql |-> Join(BLANK, sql_steps[1]),
     message |-> <<FAILED_PREFIX, IdTok(tool.toolId), Lit(". Error:"), err>>]

\* The result returned from the except branch around the generation call.
FailureResult(tool, err) ==
    [sql |-> <<>>,
     message |-> <<FAILED_PREFIX, IdTok(tool.toolId), Lit(". Error:"), err>>]

\* Mutant: no early return, the loop and the assembly run on an empty list.
ParseReturnedIntoLoop(c, r) ==
    /\ tools' = Upd(tools, c, r.tools)
    /\ parse_message' = Upd(parse_message, c, r.message)
    /\ current_schema' = Upd(current_schema, c, SeedSchema)
    /\ sql_steps' = Upd(sql_steps, c, <<>>)
    /\ current_cte_name' = Upd(current_cte_name, c, SourceData)
    /\ agent_messages' = Upd(agent_messages, c, <<r.message>>)
    /\ final_output_schema' = Upd(final_output_schema, c, SeedSchema)
    /\ pc' = Upd(pc, c, "Loop")
    /\ UNCHANGED <<front, doc, i, step_output_schema, prompt, generated_sql_snippet,
                   result, calls, responses, assembled>>

\* Lines 96-111 once _parse_alteryx_xml has returned r: the early return,
\* or the initialisation of the cursors.
ParseReturned(c, r) ==
    /\ tools' = Upd(tools, c, r.tools)
    /\ parse_message' = Upd(parse_message, c, r.message)
    /\ IF r.tools = <<>>
       THEN /\ result' = Upd(result, c, EmptyResult(r.message))
            /\ pc' = Upd(pc, c, "Done")
            /\ UNCHANGED <<current_schema, sql_steps, current_cte_name,
                           agent_messages, final_output_schema>>
       ELSE /\ current_schema' = Upd(current_schema, c, SeedSchema)
            /\ sql_steps' = Upd(sql_steps, c, <<>>)
            /\ current_cte_name' = Upd(current_cte_name, c, SourceData)
            /\ agent_messages' = Upd(agent_messages, c, <<r.message>>)
            /\ final_output_schema' = Upd(final_output_schema, c, SeedSchema)
            /\ pc' = Upd(pc, c, "Loop")
            /\ UNCHANGED result
    /\ UNCHANGED <<front, doc, i, step_output_schema, prompt, generated_sql_snippet,
                   calls, responses, assembled>>

\* Every order of the tools that is ascending in the sort key.
AscendingOrders(ts) ==
    { s \in [1..Len(ts) -> {ts[j] : j \in 1..Len(ts)}] :
        /\ \A t \in {ts[j] : j \in 1..Len(ts)} :
              Cardinality({j \in 1..Len(s) : s[j] = t})
                  = Cardinality({j \in 1..Len(ts) : ts[j] = t})
        /\ \A j, k \in 1..Len(s) : j < k => SortKey(s[j]) <= SortKey(s[k]) }

\* Mutant: the sort is not stable, tools of equal key come in any order.
ParseUnstable(c) ==
    /\ pc[c] = "Parsing"
    /\ \E ts \in AscendingOrders(parse_alteryx_xml(doc[c]).tools) :
          ParseReturned(c, [tools |-> ts, message |-> parse_alteryx_xml(doc[c]).message])

\* Lines 96-111: the call of _parse_alteryx_xml, the early return, and the
\* initialisation of the cursors.  Where int() can raise, whether it does is
\* the interpreter's choice, and the exception leaves convert_alteryx_to_sql.
Parse(c) ==
    /\ pc[c] = "Parsing"
    /\ \E raises \in (IF ParseCanRaise(doc[c]) THEN BOOLEAN ELSE {FALSE}) :
        IF raises
        THEN /\ pc' = Upd(pc, c, "Raised")
             /\ UNCHANGED <<front, doc, locals, result, calls, responses, assembled>>
        ELSE ParseReturned(c, parse_alteryx_xml(doc[c]))

\* Lines 113-158: the head of one iteration, up to the generation call.
BuildPrompt(c) ==
    /\ pc[c] = "Loop"
    /\ i[c] < Len(tools[c])
    /\ IF Tool(c).type \in {"Select", "Filter"}
       THEN /\ step_output_schema' =
                   Upd(step_output_schema, c, StepOutputSchema(Tool(c), current_schema[c]))
            /\ prompt' = Upd(prompt, c, Prompt(Tool(c), current_cte_name[c], current_schema[c]))
            /\ agent_messages' =
                   Upd(agent_messages, c, Append(agent_messages[c], ProcessingMessage(Tool(c))))
            /\ pc' = Upd(pc, c, "Generate")
            /\ UNCHANGED result
       ELSE /\ step_output_schema' = Upd(step_output_schema, c, current_schema[c])
            /\ prompt' = Upd(prompt, c, NoPrompt)
            /\ result' = Upd(result, c, UnsupportedResult(Tool(c)))
            /\ pc' = Upd(pc, c, "Done")
            /\ UNCHANGED agent_messages
    /\ UNCHANGED <<front, doc, tools, parse_message, current_schema, sql_steps, current_cte_name,
                   final_output_schema, i, generated_sql_snippet, calls, responses,
                   assembled>>

\* Mutant: a generation call that raised is repeated once.
GenerateRetry(c) ==
    /\ pc[c] = "Generate"
    /\ \E response \in Responses :
        /\ calls' = Upd(calls, c, Append(calls[c], prompt[c]))
        /\ responses' = Upd(responses, c, Append(responses[c], response))
        /\ IF response.ok
           THEN /\ generated_sql_snippet' =
                       Upd(generated_sql_snippet, c, generate_sql_snippet(response))
                /\ pc' = Upd(pc, c, "Append")
                /\ UNCHANGED result
           ELSE IF Len(calls[c]) = i[c]
           THEN UNCHANGED <<pc, result, generated_sql_snippet>>
           ELSE /\ result' = Upd(result, c, FailureResult(Tool(c), response.err))
                /\ pc' = Upd(pc, c, "Done")
                /\ UNCHANGED generated_sql_snippet
    /\ UNCHANGED <<front, doc, tools, parse_message, current_schema, sql_steps, current_cte_name,
                   agent_messages, final_output_schema, i, step_output_schema, prompt,
                   assembled>>

\* Lines 160-166 and 78-86: the generation call, and the return on failure.
Generate(c) ==
    /\ pc[c] = "Generate"
    /\ \E response \in Responses :
        /\ calls' = Upd(calls, c, Append(calls[c], prompt[c]))
        /\ responses' = Upd(responses, c, Append(responses[c], response))
        /\ IF response.ok
           THEN /\ generated_sql_snippet' =
                       Upd(generated_sql_snippet, c, generate_sql_snippet(response))
                /\ pc' = Upd(pc, c, "Append")
                /\ UNCHANGED result
           ELSE /\ result' = Upd(result, c, FailureResult(Tool(c), response.err))
                /\ pc' = Upd(pc, c, "Done")
                /\ UNCHANGED generated_sql_snippet
    /\ UNCHANGED <<front, doc, tools, parse_message, current_schema, sql_steps, current_cte_name,
                   agent_messages, final_output_schema, i, step_output_schema, prompt,
                   assembled>>

\* Mutant: the schema and name cursors are attributes of the agent instance,
\* one pair for all calls.
AppendNodeOnInstance(c) ==
    /\ pc[c] = "Append"
    /\ sql_steps' =
           Upd(sql_steps, c,
               Append(sql_steps[c],
                      StepSql(Tool(c), NextCteName(i[c]), current_cte_name[c],
                              generated_sql_snippet[c], step_output_schema[c])))
    /\ current_cte_name' = [d \in Conv |-> NextCteName(i[c])]
    /\ current_schema' = [d \in Conv |-> step_output_schema[c]]
    /\ final_output_schema' = Upd(final_output_schema, c, step_output_schema[c])
    /\ i' = Upd(i, c, i[c] + 1)
    /\ pc' = Upd(pc, c, "Loop")
    /\ UNCHANGED <<front, doc, tools, parse_message, agent_messages, step_output_schema, prompt,
                   generated_sql_snippet, result, calls, responses, assembled>>

\* Lines 168-179: the new CTE step, and the cursors moved past it.
AppendNode(c) ==
    /\ pc[c] = "Append"
    /\ sql_steps' =
           Upd(sql_steps, c,
               Append(sql_steps[c],
                      StepSql(Tool(c), NextCteName(i[c]), current_cte_name[c],
                              generated_sql_snippet[c], step_output_schema[c])))
    /\ current_cte_name' = Upd(current_cte_name, c, NextCteName(i[c]))
    /\ current_schema' = Upd(current_schema, c, step_output_schema[c])
    /\ final_output_schema' = Upd(final_output_schema, c, step_output_schema[c])
    /\ i' = Upd(i, c, i[c] + 1)
    /\ pc' = Upd(pc, c, "Loop")
    /\ UNCHANGED <<front, doc, tools, parse_message, agent_messages, step_output_schema, prompt,
                   generated_sql_snippet, result, calls, responses, assembled>>

\* Lines 181-203: the final script and the returned result.
Assemble(c) ==
    /\ pc[c] = "Loop"
    /\ i[c] = Len(tools[c])
    /\ result' =
           Upd(result, c,
               AssembleResult(sql_steps[c], final_output_schema[c], current_cte_name[c],
                              agent_messages[c]))
    /\ assembled' = Upd(assembled, c, TRUE)
    /\ pc' = Upd(pc, c, "Done")
    /\ UNCHANGED <<front, doc, locals, calls, responses>>

\* convert_alteryx_to_sql run alone on document d with the service answering
\* rs: the loop from its j-th tool (0-based) on.
RECURSIVE RunSteps(_, _, _, _, _, _, _)
RunSteps(ts, rs, j, schema, cte_name, steps, messages) ==
    IF j = Len(ts)
    THEN AssembleResult(steps, schema, cte_name, messages)
    ELSE LET tool == ts[j + 1] IN
         IF tool.type \notin {"Select", "Filter"} THEN UnsupportedResult(tool)
         ELSE IF ~rs[j + 1].ok THEN FailureResult(tool, rs[j + 1].err)
         ELSE LET out == StepOutputSchema(tool, schema) IN
              RunSteps(ts, rs, j + 1, out, NextCteName(j),
                       Append(steps,
                              StepSql(tool, NextCteName(j), cte_name,
                                      generate_sql_snippet(rs[j + 1]), out)),
                       Append(messages, ProcessingMessage(tool)))

ConvertAlone(d, rs) ==
    LET r == parse_alteryx_xml(d) IN
    IF r.tools = <<>> THEN EmptyResult(r.message)
    ELSE RunSteps(r.tools, rs, 0, SeedSchema, SourceData, <<>>, <<r.message>>)

Next ==
    \E c \in Conv :
        \/ Parse(c)
        \/ BuildPrompt(c)
        \/ Generate(c)
        \/ AppendNode(c)
        \/ Assemble(c)

Spec == Init /\ [][Next]_vars

\* ------------------------------------------------- projection inputs
\* Every list of at most MaxFields <Field> elements over two column names,
\* one of them in the seed schema and one in no schema, the three spellings
\* of Selected, and a Rename that is absent or collides with the other name.
FieldSet ==
    { RawField(name, selected, rename) :
        name \in {"OrderID", "Ghost"},
        selected \in {"True", "False", "true"},
        rename \in {None, "Ghost"} }

FieldLists == SeqsUpTo(FieldSet, MaxFields)

SelectNode(id, fields) ==
    [toolId |-> id, type |-> "Select", fields |-> fields, expression |-> None]

FilterNode(id, expression) ==
    [toolId |-> id, type |-> "Filter", fields |-> <<>>, expression |-> expression]

\* A first step that leaves the seed schema or replaces it, then a Select
\* with any field list.
ProjDocs ==
    { Doc("present", <<first, SelectNode(MkId(0, <<1, 0>>), fields)>>) :
        first \in { SelectNode(MkId(0, <<2>>), ExampleFields),
                    SelectNode(MkId(0, <<2>>), RenameFields),
                    SelectNode(MkId(0, <<2>>), SwapFields),
                    FilterNode(MkId(0, <<2>>), "[SalesAmount] > 1000") },
        fields \in FieldLists }

InitProj ==
    /\ pc = [c \in Conv |-> IF c = 1 THEN "Parsing" ELSE "Idle"]
    /\ doc \in {[c \in Conv |-> IF c = 1 THEN d ELSE Doc("absent", <<>>)] : d \in ProjDocs}
    /\ InitFrames
    /\ NoFront

SpecProj == InitProj /\ [][Next]_vars

\* ------------------------------------------------- two concurrent calls
\* The example workflow of agent2.py; a Filter written before a Select of
\* the same identifier; a Filter written before a Select of a
\* smaller identifier; a container without a Select or Filter node.
ConcDocs ==
    { Doc("present", << SelectNode(MkId(0, <<2>>), ExampleFields),
                        FilterNode(MkId(0, <<1, 0>>), "[total_sales] > 1000") >>),
      Doc("present", << FilterNode(MkId(0, <<2>>), None),
                        SelectNode(MkId(0, <<2>>), SwapFields) >>),
      Doc("present", << FilterNode(MkId(0, <<1, 0>>), "[SalesAmount] > 1000"),
                        SelectNode(MkId(0, <<2>>), SwapFields) >>),
      Doc("present", << [toolId |-> MkId(0, <<2>>), type |-> "Join",
                         fields |-> <<>>, expression |-> None] >>) }

\* Two calls of convert_alteryx_to_sql on the same agent instance, in flight
\* at the same time (the server of main2.py serves requests in threads).
InitConc ==
    /\ pc = [c \in Conv |-> "Parsing"]
    /\ doc \in [Conv -> ConcDocs]
    /\ InitFrames
    /\ NoFront

SpecConc == InitConc /\ [][Next]_vars

\* ------------------------------------------------------- parser inputs
\* Identifiers 2, 02 and 10, and one that is not a number.
ParseIds ==
    { MkId(0, <<2>>), MkId(1, <<2>>), MkId(0, <<1, 0>>), MkId(0, <<NonDigit, 7>>) }

JoinNode(id) == [toolId |-> id, type |-> "Join", fields |-> <<>>, expression |-> None]

ParseNodes ==
    UNION { { SelectNode(id, SwapFields), FilterNode(id, None), JoinNode(id) } : id \in ParseIds }

\* Texts with and without the workflow container around at most MaxNodes
\* nodes, the empty container, and a text without container that holds a
\* Select node whose ToolID is longer than the limit of int().
ParseDocs ==
    { Doc(container, ns) : container \in {"absent", "present"},
                           ns \in SeqsUpTo(ParseNodes, MaxNodes) }
        \cup { Doc("empty", <<>>),
               Doc("absent", <<SelectNode(MkId(INT_MAX_STR_DIGITS, <<1>>), SwapFields)>>) }

InitParse ==
    /\ pc = [c \in Conv |-> IF c = 1 THEN "Parsing" ELSE "Idle"]
    /\ doc \in {[c \in Conv |-> IF c = 1 THEN d ELSE Doc("absent", <<>>)] : d \in ParseDocs}
    /\ InitFrames
    /\ NoFront

SpecParse == InitParse /\ [][Next]_vars

\* ------------------------------------------------------ the web server
\* The documents posted to /convert: those of the concurrent calls, a text
\* without a workflow container, an empty container, and a Select node
\* whose ToolID is longer than the limit of int().
HttpDocs ==
    ConcDocs
        \cup { Doc("absent", <<>>), Doc("empty", <<>>),
               Doc("present", <<SelectNode(MkId(INT_MAX_STR_DIGITS, <<1>>), SwapFields)>>) }

Requests ==
    [is_json : BOOLEAN, alteryx_xml : {NoXml, EmptyXml} \cup HttpDocs]

NOT_JSON_MSG == <<Lit("Request must be JSON")>>

MISSING_XML_MSG == <<Lit("Missing alteryx_xml in request body.")>>

INTERNAL_ERROR_PREFIX == Lit("An internal server error occurred during conversion:")

\* str(e) of the NameError raised by the use of the undefined global.
NAME_ERROR == ErrText("name alteryx_converter_instance is not defined")

\* str(e) of the ValueError raised by int() on a digit string over the limit.
INT_ERROR == ErrText("Exceeds the limit (4300 digits) for integer string conversion")

\* Lines 37-49: the checks of the request, and the call of the agent.  The
\* call is inside the try: an agent that was never bound raises NameError
\* there, which the except branch turns into a response.
Handle(c) ==
    /\ pc[c] = "Received"
    /\ IF ~request[c].is_json
       THEN /\ http' = Upd(http, c, Response(400, {"message"}, <<>>, NOT_JSON_MSG))
            /\ pc' = Upd(pc, c, "Returned")
            /\ UNCHANGED doc
       ELSE IF request[c].alteryx_xml \in {NoXml, EmptyXml}
       THEN /\ http' = Upd(http, c, Response(400, {"message"}, <<>>, MISSING_XML_MSG))
            /\ pc' = Upd(pc, c, "Returned")
            /\ UNCHANGED doc
       ELSE IF ~agent_initialised
       THEN /\ http' = Upd(http, c, Response(500, {"message"}, <<>>,
                                             <<INTERNAL_ERROR_PREFIX, NAME_ERROR>>))
            /\ pc' = Upd(pc, c, "Returned")
            /\ UNCHANGED doc
       ELSE /\ doc' = Upd(doc, c, request[c].alteryx_xml)
            /\ pc' = Upd(pc, c, "Parsing")
            /\ UNCHANGED http
    /\ UNCHANGED <<agent_initialised, request, locals, result, calls, responses, assembled>>

\* Lines 50-54: the response once the agent has returned or raised.
Respond(c) ==
    /\ pc[c] \in {"Done", "Raised"}
    /\ request[c] # NoRequest
    /\ http[c] = NoResponse
    /\ http' = Upd(http, c,
                   IF pc[c] = "Done"
                   THEN Response(200, {"sql", "message"}, result[c].sql, result[c].message)
                   ELSE Response(500, {"message"}, <<>>, <<INTERNAL_ERROR_PREFIX, INT_ERROR>>))
    /\ UNCHANGED <<agent_initialised, request, pc, doc, locals, result, calls, responses,
                   assembled>>

\* One request to /convert, on a server whose agent was initialised or not.
InitHttp ==
    /\ pc = [c \in Conv |-> IF c = 1 THEN "Received" ELSE "Idle"]
    /\ doc = [c \in Conv |-> Doc("absent", <<>>)]
    /\ InitFrames
    /\ agent_initialised \in BOOLEAN
    /\ request \in {[c \in Conv |-> IF c = 1 THEN r ELSE NoRequest] : r \in Requests \ {NoRequest}}
    /\ http = [c \in Conv |-> NoResponse]

NextHttp ==
    \E c \in Conv :
        \/ Handle(c)
        \/ Parse(c)
        \/ BuildPrompt(c)
        \/ Generate(c)
        \/ AppendNode(c)
        \/ Assemble(c)
        \/ Respond(c)

SpecHttp == InitHttp /\ [][NextHttp]_vars

\* ================================================================== claims
\* frag occurs in text as a run of consecutive tokens.
IsInfix(frag, text) ==
    /\ frag # <<>>
    /\ \E start \in 1..(Len(text) - Len(frag) + 1) :
          SubSeq(text, start, start + Len(frag) - 1) = frag

Last(s) == s[Len(s)]

\* The call returned from the except branch: its last generation call raised.
FailedAtGeneration(c) ==
    /\ pc[c] = "Done"
    /\ responses[c] # <<>>
    /\ ~Last(responses[c]).ok

\* The snippet the call got for its j-th step.
SnippetOf(c, j) == Strip(responses[c][j].text)

\* C1: when the generation call fails on the k-th step after succeeding on
\* steps 1..k-1, the returned sql is empty, the message mentions the
\* identifier of step k, and no snippet generated for steps 1..k-1 occurs in
\* the returned sql or message.
C1_FailurePropagation ==
    \A c \in Conv :
        FailedAtGeneration(c) =>
            LET k == Len(responses[c]) IN
            /\ result[c].sql = <<>>
            /\ IdTok(tools[c][k].toolId) \in Toks(result[c].message)
            /\ \A j \in 1..(k - 1) :
                  /\ ~IsInfix(SnippetOf(c, j), result[c].sql)
                  /\ ~IsInfix(SnippetOf(c, j), result[c].message)

\* A call that failed on its second step, after a first step that succeeded.
C1_Witness ==
    \E c \in Conv :
        /\ FailedAtGeneration(c)
        /\ Len(responses[c]) = 2
        /\ responses[c][1].ok
        /\ sql_steps[c] # <<>>

\* ---------------------------------------------------------------------- C2
\* The Select and Filter nodes of a document, in document order.
IsRecognized(node) ==
    /\ node.type \in {"Select", "Filter"}
    /\ node.toolId.zeros + Len(node.toolId.digits) > 0
    /\ \A j \in 1..Len(node.toolId.digits) : node.toolId.digits[j] < NonDigit

Recognized(d) == IF d.container = "present" THEN SelectSeq(d.nodes, IsRecognized) ELSE <<>>

Count(x, s) == Cardinality({j \in 1..Len(s) : s[j] = x})

\* The number of CTE nodes of a script.
NodeCount(sql) == Count(Lit("WITH"), sql)

\* The call ran every generation call with success and assembled the script.
Succeeded(c) == pc[c] = "Done" /\ assembled[c]

\* C2: when every generation call succeeds, the emitted script has as many
\* nodes as the document has Select and Filter steps, and the i-th node is
\* built from the step with the i-th smallest numeric identifier: the steps
\* behind the nodes are the document's steps, each once, in ascending
\* numeric order, and node i has the kind and the snippet of step i.
C2_NodeCountAndOrder ==
    \A c \in Conv :
        Succeeded(c) =>
            LET steps == Recognized(doc[c])
                n == Len(steps)
                built == [j \in 1..Len(calls[c]) |-> calls[c][j].xml_snippet[1]]
            IN  /\ NodeCount(result[c].sql) = n
                /\ Len(sql_steps[c]) = n
                /\ Len(built) = n
                /\ \A node \in {steps[j] : j \in 1..n} \cup {built[j] : j \in 1..Len(built)} :
                      Count(node, built) = Count(node, steps)
                /\ \A j, k \in 1..n :
                      j < k => IntOf(built[j].toolId) <= IntOf(built[k].toolId)
                /\ \A j \in 1..n :
                      /\ (sql_steps[c][j][4] = Lit("SELECT")) <=> (built[j].type = "Filter")
                      /\ IsInfix(SnippetOf(c, j), sql_steps[c][j])

\* A script of two nodes whose steps were written in descending order.
C2_Witness ==
    \E c \in Conv :
        /\ Succeeded(c)
        /\ Len(doc[c].nodes) = 2
        /\ Len(sql_steps[c]) = 2
        /\ IntOf(doc[c].nodes[1].toolId) > IntOf(doc[c].nodes[2].toolId)

\* ---------------------------------------------------------------------- C3
\* The step being translated is a Select whose output schema is computed.
ProjectionDone(c) == pc[c] = "Generate" /\ Tool(c).type = "Select"

\* The <Field> elements of the step, as written in the document.
RawFields(c) == Tool(c).xml_snippet.fields

MarkedSelected(f) == f.selected = "True"

RawOutputName(f) == IF f.rename = None THEN f.name ELSE f.rename

KeySet(schema) == {schema[j].name : j \in 1..Len(schema)}

\* The first selected field that yields the key.
FirstDecl(fields, key) ==
    CHOOSE j \in 1..Len(fields) :
        /\ MarkedSelected(fields[j]) /\ RawOutputName(fields[j]) = key
        /\ \A h \in 1..(j - 1) :
              ~(MarkedSelected(fields[h]) /\ RawOutputName(fields[h]) = key)

\* The keys are the output names of exactly the selected fields, each once,
\* in the order in which the fields declare them.
KeysAreSelectedInOrder(fields, schema) ==
    /\ KeySet(schema) =
           {RawOutputName(fields[j]) : j \in {h \in 1..Len(fields) : MarkedSelected(fields[h])}}
    /\ \A a, b \in 1..Len(schema) :
          a < b => FirstDecl(fields, schema[a].name) < FirstDecl(fields, schema[b].name)

\* C3 as stated: the key set of a Projection step's output schema is the
\* set of output names of exactly the selected fields, in declaration
\* order, and no unselected field's name is among the keys.
C3_AsStated ==
    \A c \in Conv :
        ProjectionDone(c) =>
            /\ KeysAreSelectedInOrder(RawFields(c), step_output_schema[c])
            /\ \A j \in 1..Len(RawFields(c)) :
                  ~MarkedSelected(RawFields(c)[j])
                      => RawFields(c)[j].name \notin KeySet(step_output_schema[c])

\* C3 amended: the key set of a Projection step's output schema is the set
\* of output names of exactly the selected fields, in declaration order, and
\* an unselected field's name is among the keys only as the output name of
\* a selected field.
C3_ProjectionKeys ==
    \A c \in Conv :
        ProjectionDone(c) =>
            /\ KeysAreSelectedInOrder(RawFields(c), step_output_schema[c])
            /\ \A j \in 1..Len(RawFields(c)) :
                  (/\ ~MarkedSelected(RawFields(c)[j])
                   /\ RawFields(c)[j].name \in KeySet(step_output_schema[c]))
                      => \E h \in 1..Len(RawFields(c)) :
                            /\ MarkedSelected(RawFields(c)[h])
                            /\ RawOutputName(RawFields(c)[h]) = RawFields(c)[j].name

\* A Projection over a schema other than the seed, with a selected and an
\* unselected field, whose output schema is not empty.
C3_Witness ==
    \E c \in Conv :
        /\ ProjectionDone(c)
        /\ current_schema[c] # SeedSchema
        /\ Len(RawFields(c)) = 2
        /\ MarkedSelected(RawFields(c)[1])
        /\ ~MarkedSelected(RawFields(c)[2])
        /\ step_output_schema[c] # <<>>

\* ---------------------------------------------------------------------- C4
\* The index of the first FROM of a CTE step.
FirstFrom(step) == CHOOSE j \in 1..Len(step) : step[j] = FROM /\ \A h \in 1..(j - 1) : step[h] # FROM

\* The names in the column list of the pass-through SELECT of a Filter
\* step: the column tokens between SELECT and the first FROM.
RECURSIVE ColNames(_)
ColNames(text) ==
    IF text = <<>> THEN <<>>
    ELSE IF text[1].k = "col" THEN <<text[1].s>> \o ColNames(Tail(text))
    ELSE ColNames(Tail(text))

NodeColumns(step) == ColNames(SubSeq(step, 5, FirstFrom(step) - 1))

\* The call appends the node of a Filter step.
FilterAppended(c) ==
    /\ pc[c] = "Append"
    /\ pc'[c] = "Loop"
    /\ Tool(c).type = "Filter"

\* C4: a Predicate step at any position leaves the current schema as it was
\* before the step, and the column list of the pass-through SELECT of its
\* node is, in order, the column list of that schema.
C4_FilterKeepsSchema ==
    [][\A c \in Conv :
          FilterAppended(c) =>
              /\ current_schema'[c] = current_schema[c]
              /\ final_output_schema'[c] = current_schema[c]
              /\ Last(sql_steps'[c])[4] = Lit("SELECT")
              /\ NodeColumns(Last(sql_steps'[c])) = Keys(current_schema[c])]_vars

\* A Filter node appended second, behind a Select that changed the schema.
C4_Witness ==
    \E c \in Conv :
        /\ pc[c] = "Loop"
        /\ Len(sql_steps[c]) = 2
        /\ tools[c][1].type = "Select"
        /\ tools[c][2].type = "Filter"
        /\ current_schema[c] # SeedSchema
        /\ current_schema[c] # <<>>

\* ---------------------------------------------------------------------- C5
\* The message reports an error.
IsErrorMessage(message) ==
    ERROR_PREFIX \in Toks(message) \/ FAILED_PREFIX \in Toks(message)

\* The call returned on a document without a Select or Filter step.
ReturnedWithoutSteps(c) == pc[c] = "Done" /\ Recognized(doc[c]) = <<>>

EmptyOutcome(c) ==
    /\ result[c].sql = <<>>
    /\ result[c].message # <<>>
    /\ ~IsErrorMessage(result[c].message)
    /\ calls[c] = <<>>
    /\ ~assembled[c]

\* C5 as stated: a document with zero recognized steps yields empty sql and
\* a non-error informational message, with no generation call and no
\* assembly.
C5_AsStated == \A c \in Conv : ReturnedWithoutSteps(c) => EmptyOutcome(c)

\* C5 amended: a document whose workflow container is present and not empty
\* and that has zero recognized steps yields empty sql and a non-error
\* informational message, with no generation call and no assembly.
C5_EmptyPlan ==
    \A c \in Conv :
        (ReturnedWithoutSteps(c) /\ doc[c].container = "present") => EmptyOutcome(c)

\* A returned call whose document holds one node, of an unrecognized kind.
C5_Witness ==
    \E c \in Conv :
        /\ ReturnedWithoutSteps(c)
        /\ doc[c].container = "present"
        /\ Len(doc[c].nodes) = 1
        /\ result[c].message = NO_TOOLS_MSG

\* ---------------------------------------------------------------------- C6
\* C6: for every document and every behaviour of the generation service,
\* no exception leaves convert_alteryx_to_sql.
C6_NoExceptionEscapes == \A c \in Conv : pc[c] # "Raised"

\* ---------------------------------------------------------------------- C7
\* Some step of the call failed: the generation call raised, or the tool
\* was of an unsupported kind.
SomeStepFailed(c) ==
    \/ FailedAtGeneration(c)
    \/ /\ pc[c] = "Done"
       /\ i[c] < Len(tools[c])
       /\ ~IsRecognized(Tool(c))

\* Every step of the call, at least one, got its snippet.
AllStepsSucceeded(c) ==
    /\ tools[c] # <<>>
    /\ Len(responses[c]) = Len(tools[c])
    /\ \A j \in 1..Len(responses[c]) : responses[c][j].ok

EndsWith(text, tail) ==
    /\ Len(text) >= Len(tail)
    /\ SubSeq(text, Len(text) - Len(tail) + 1, Len(text)) = tail

\* C7: in every returned result the message is not empty; sql is empty
\* exactly when no step was parsed or some step failed; and when all of at
\* least one step succeed, sql is a script and the message ends with the
\* success confirmation.
C7_ResultShape ==
    \A c \in Conv :
        pc[c] = "Done" =>
            /\ result[c].message # <<>>
            /\ (result[c].sql = <<>>) <=> (tools[c] = <<>> \/ SomeStepFailed(c))
            /\ AllStepsSucceeded(c) =>
                  /\ result[c].sql # <<>>
                  /\ result[c].sql[1] = VIEW_HEADER
                  /\ EndsWith(result[c].message, SUCCESS_MSG)

\* A returned call all of whose two steps succeeded.
C7_Witness ==
    \E c \in Conv :
        /\ pc[c] = "Done"
        /\ AllStepsSucceeded(c)
        /\ Len(tools[c]) = 2
        /\ result[c].sql # <<>>

HasDuplicateIds(d) ==
    \E j, k \in 1..Len(d.nodes) : j # k /\ d.nodes[j].toolId = d.nodes[k].toolId

C9_Independent ==
    \A c \in Conv :
        pc[c] = "Done" => result[c] = ConvertAlone(doc[c], responses[c])

\* Call 1 has returned the script of its two steps while call 2 is in its
\* loop, one node appended, with another schema under its cursor.
C9_Witness ==
    /\ pc[1] = "Done"
    /\ AllStepsSucceeded(1)
    /\ Len(sql_steps[1]) = 2
    /\ pc[2] = "Generate"
    /\ Len(sql_steps[2]) = 1
    /\ current_schema[2] # final_output_schema[1]

\* --------------------------------------------------------------------- C10
StepName(step) == step[2]

\* The FROM target the assembler gives a node: behind the column list of a
\* Filter node, at the end of a Select node.
NodeSource(step) ==
    IF step[4] = Lit("SELECT") THEN step[FirstFrom(step) + 1]
    ELSE step[Len(step) - 1]

RECURSIVE SumLen(_)
SumLen(steps) == IF steps = <<>> THEN 0 ELSE Len(steps[1]) + 1 + SumLen(Tail(steps))

\* The j-th node as it stands in the emitted script.
EmittedNode(c, j) ==
    LET start == 1 + SumLen(SubSeq(sql_steps[c], 1, j - 1))
    IN  SubSeq(result[c].sql, start + 1, start + Len(sql_steps[c][j]))

\* C10: node names are pairwise distinct, the n-th node is named cte_<n>,
\* the first node reads FROM source_data, emitted as the placeholder table
\* path, and every later node k reads FROM the name of node k-1.
C10_ChainNames ==
    \A c \in Conv :
        /\ \A j \in 1..Len(sql_steps[c]) :
              /\ StepName(sql_steps[c][j]) = CteName(j)
              /\ NodeSource(sql_steps[c][j]) = IF j = 1 THEN SourceData ELSE CteName(j - 1)
        /\ \A j, k \in 1..Len(sql_steps[c]) :
              j # k => StepName(sql_steps[c][j]) # StepName(sql_steps[c][k])
        /\ Succeeded(c) =>
              \A j \in 1..Len(sql_steps[c]) :
                  /\ StepName(EmittedNode(c, j)) = CteName(j)
                  /\ NodeSource(EmittedNode(c, j))
                         = IF j = 1 THEN PLACEHOLDER_TABLE ELSE CteName(j - 1)

\* An emitted script of two nodes, a Select and a Filter.
C10_Witness ==
    \E c \in Conv :
        /\ Succeeded(c)
        /\ Len(sql_steps[c]) = 2
        /\ tools[c][1].type # tools[c][2].type

\* --------------------------------------------------------------------- C11
\* The text of the emitted script behind its last node.
ClosingSelect(c) ==
    SubSeq(result[c].sql, SumLen(sql_steps[c]) + 1, Len(result[c].sql))

\* C11: on success with n steps the emitted script ends with a closing
\* SELECT whose column list is, in order, the keys of the schema that the
\* n-th step produced, and whose FROM target is cte_n.
C11_ClosingSelect ==
    \A c \in Conv :
        Succeeded(c) =>
            LET n == Len(tools[c])
                closing == ClosingSelect(c)
                len == Len(closing)
            IN  /\ len >= 4
                /\ closing[1] = Lit("SELECT")
                /\ ColNames(SubSeq(closing, 2, len - 3)) = Keys(step_output_schema[c])
                /\ \A j \in 2..(len - 3) : closing[j].k = "col" \/ closing[j] = Lit(",")
                /\ closing[len - 2] = FROM
                /\ closing[len - 1] = CteName(n)
                /\ closing[len] = Lit(";")
                /\ NodeCount(closing) = 0

\* An emitted script of two steps whose second step, a Select, produced a
\* schema that is neither the seed schema nor empty.
C11_Witness ==
    \E c \in Conv :
        /\ Succeeded(c)
        /\ Len(tools[c]) = 2
        /\ tools[c][2].type = "Select"
        /\ step_output_schema[c] # SeedSchema
        /\ step_output_schema[c] # <<>>

\* --------------------------------------------------------------------- C12
\* The type a schema holds for a column name, none when it has no such key.
TypesOf(schema, name) == {schema[j].type : j \in {h \in 1..Len(schema) : schema[h].name = name}}

\* The last selected field that yields the key.
LastDecl(fields, key) ==
    CHOOSE j \in 1..Len(fields) :
        /\ MarkedSelected(fields[j]) /\ RawOutputName(fields[j]) = key
        /\ \A h \in (j + 1)..Len(fields) :
              ~(MarkedSelected(fields[h]) /\ RawOutputName(fields[h]) = key)

\* C12: in the output schema of every Projection step each column has the
\* type that the step's input schema holds under the original name of the
\* field that yields the column (the last such field when several selected
\* fields yield one column), or UNKNOWN when the input schema has no such
\* key; selecting OrderID as transaction_id and SalesAmount as total_sales
\* from the seed schema yields {transaction_id: STRING, total_sales: FLOAT}.
C12_ProjectionTypes ==
    \A c \in Conv :
        ProjectionDone(c) =>
            /\ \A a \in 1..Len(step_output_schema[c]) :
                  LET col == step_output_schema[c][a]
                      original == RawFields(c)[LastDecl(RawFields(c), col.name)].name
                      found == TypesOf(current_schema[c], original)
                  IN  /\ found # {} => found = {col.type}
                      /\ found = {} => col.type = "UNKNOWN"
            /\ (RawFields(c) = RenameFields /\ current_schema[c] = SeedSchema) =>
                  step_output_schema[c] =
                      << [name |-> "transaction_id", type |-> "STRING"],
                         [name |-> "total_sales", type |-> "FLOAT"] >>

\* A Projection over a schema other than the seed that yields a column of
\* type UNKNOWN and a column of a type of that schema.
C12_Witness ==
    \E c \in Conv :
        /\ ProjectionDone(c)
        /\ current_schema[c] # SeedSchema
        /\ \E a, b \in 1..Len(step_output_schema[c]) :
              /\ step_output_schema[c][a].type = "UNKNOWN"
              /\ step_output_schema[c][b].type # "UNKNOWN"

\* --------------------------------------------------------------------- C13
\* The request of the call has been answered.
Answered(c) == http[c] # NoResponse

\* The request is not JSON, or has no alteryx_xml, or an empty one.
BadRequest(c) ==
    ~request[c].is_json \/ request[c].alteryx_xml \in {NoXml, EmptyXml}

\* The conversion ran and returned a result without a script.
ConversionFailed(c) == pc[c] = "Done" /\ result[c].sql = <<>>

\* C13: the /convert endpoint answers 200 with the ConversionResult on
\* success, 400 when the request is not JSON or alteryx_xml is missing or
\* empty, 500 on an unhandled internal error, an agent that failed to
\* initialise included; and a conversion that fails with empty sql gets a
\* status that is not a success status.
C13_StatusCodes ==
    \A c \in Conv :
        Answered(c) =>
            /\ BadRequest(c) => http[c].status = 400
            /\ (~BadRequest(c) /\ (~agent_initialised \/ pc[c] = "Raised"))
                  => http[c].status = 500
            /\ (pc[c] = "Done" /\ result[c].sql # <<>>) =>
                  /\ http[c].status = 200
                  /\ http[c].keys = {"sql", "message"}
                  /\ http[c].sql = result[c].sql
                  /\ http[c].message = result[c].message
            /\ ConversionFailed(c) => http[c].status \notin 200..299

\* --------------------------------------------------------------------- C14
\* out is what a Projection with these fields makes of the schema in.
IsProjectionOf(fields, in, out) ==
    /\ KeysAreSelectedInOrder(fields, out)
    /\ \A a \in 1..Len(out) :
          LET found == TypesOf(in, fields[LastDecl(fields, out[a].name)].name)
          IN  IF found = {} THEN out[a].type = "UNKNOWN" ELSE found = {out[a].type}

\* out is the schema that the step of this node yields from the schema in.
IsOutputOf(node, in, out) ==
    IF node.type = "Select" THEN IsProjectionOf(node.fields, in, out) ELSE out = in

\* C14: the steps are processed one after the other: the request for step
\* j is sent only after the node of step j-1 is built, and no node is built
\* before its request; the request embeds the schema that step j-1 yields
\* and the name of node j-1 (the seed schema and source_data for the first
\* step), and the configuration of step j as written in the document.
C14_SequentialRequests ==
    \A c \in Conv :
        /\ Len(calls[c]) <= Len(sql_steps[c]) + 1
        /\ Len(sql_steps[c]) <= Len(calls[c])
        /\ \A j \in 1..Len(calls[c]) :
              LET p == calls[c][j] IN
              /\ p.xml_snippet = <<tools[c][j].xml_snippet>>
              /\ \E h \in 1..Len(doc[c].nodes) : <<doc[c].nodes[h]>> = p.xml_snippet
              /\ p.kind = p.xml_snippet[1].type
              /\ p.cte = IF j = 1 THEN SourceData ELSE StepName(sql_steps[c][j - 1])
              /\ IF j = 1 THEN p.schema = SeedSchema
                 ELSE IsOutputOf(calls[c][j - 1].xml_snippet[1],
                                 calls[c][j - 1].schema, p.schema)

\* The request of a second step behind a Select: it names cte_1 and embeds
\* a schema that is not the seed schema.
C14_Witness ==
    \E c \in Conv :
        /\ Len(calls[c]) = 2
        /\ calls[c][1].kind = "Select"
        /\ calls[c][2].cte = CteName(1)
        /\ calls[c][2].schema # SeedSchema
        /\ calls[c][2].schema # <<>>

\* --------------------------------------------------------------------- C15
\* C15: the generation service is invoked at most once per step, in step
\* order, and never again after a failure: a first failure at step k means
\* exactly k invocations, no failure means exactly n, and a document with
\* zero parsed steps means none.
C15_InvocationCount ==
    \A c \in Conv :
        /\ Len(responses[c]) = Len(calls[c])
        /\ Len(calls[c]) <= Len(tools[c])
        /\ \A j \in 1..Len(calls[c]) : calls[c][j].xml_snippet = <<tools[c][j].xml_snippet>>
        /\ \A j \in 1..(Len(responses[c]) - 1) : responses[c][j].ok
        /\ pc[c] = "Done" =>
              /\ tools[c] = <<>> => calls[c] = <<>>
              /\ Succeeded(c) =>
                    /\ Len(calls[c]) = Len(tools[c])
                    /\ \A j \in 1..Len(responses[c]) : responses[c][j].ok
              /\ (tools[c] # <<>> /\ ~Succeeded(c)) =>
                    /\ FailedAtGeneration(c)
                    /\ result[c].message[2] = IdTok(tools[c][Len(calls[c])].toolId)

\* A call on two steps that returned after the failure of its first
\* generation call: one invocation, none for the second step.
C15_Witness ==
    \E c \in Conv :
        /\ FailedAtGeneration(c)
        /\ Len(tools[c]) = 2
        /\ Len(calls[c]) = 1

\* --------------------------------------------------------------------- C16
\* The script as assembled, before the source-table substitution.
Unsubstituted(c) ==
    <<VIEW_HEADER>> \o Join(BLANK, sql_steps[c]) \o ClosingSelect(c)

\* The place in the script of the FROM target that the assembler gives the
\* first node.
FirstSourceAt(c) ==
    LET step == sql_steps[c][1] IN
    1 + (IF step[4] = Lit("SELECT") THEN FirstFrom(step) + 1 ELSE Len(step) - 1)

\* C16: every generated snippet stands unchanged in its node of the emitted
\* script, and the source-table substitution changes the FROM target of the
\* first node and no other text of the script.
C16_VerbatimSplice ==
    \A c \in Conv :
        Succeeded(c) =>
            /\ \A j \in 1..Len(sql_steps[c]) :
                  SnippetOf(c, j) # <<>> => IsInfix(SnippetOf(c, j), EmittedNode(c, j))
            /\ Len(result[c].sql) = Len(Unsubstituted(c))
            /\ {p \in 1..Len(result[c].sql) : result[c].sql[p] # Unsubstituted(c)[p]}
                   = {FirstSourceAt(c)}

\* --------------------------------------------------------------------- C17
\* The value of a string of decimal digits.
RECURSIVE Value(_)
Value(ds) == IF ds = <<>> THEN 0 ELSE ds[Len(ds)] + 10 * Value(SubSeq(ds, 1, Len(ds) - 1))

\* The identifiers are numeric strings, in ascending order of their values.
NumericAndAscending(ts) ==
    /\ \A j \in 1..Len(ts) :
          /\ ts[j].toolId.zeros + Len(ts[j].toolId.digits) > 0
          /\ \A h \in 1..Len(ts[j].toolId.digits) : ts[j].toolId.digits[h] \in 0..9
    /\ \A j, k \in 1..Len(ts) :
          j < k => Value(ts[j].toolId.digits) <= Value(ts[k].toolId.digits)

\* No two elements of the sequence have the same identifier string.
DistinctIds(ts) == \A j, k \in 1..Len(ts) : j # k => ts[j].toolId # ts[k].toolId

\* C17 as stated: in every descriptor sequence that the parser returns,
\* each identifier is a numeric string, the identifiers are unique, and the
\* sequence is in ascending order of their numeric values.
C17_AsStated ==
    \A c \in Conv : NumericAndAscending(tools[c]) /\ DistinctIds(tools[c])

\* C17 amended: in every descriptor sequence that the parser returns, each
\* identifier is a numeric string and the sequence is in ascending order of
\* the numeric values; the identifiers are unique exactly when those of the
\* Select and Filter nodes of the document are.
C17_Descriptors ==
    \A c \in Conv :
        /\ NumericAndAscending(tools[c])
        /\ pc[c] \notin {"Idle", "Parsing"} =>
              (DistinctIds(tools[c]) <=> DistinctIds(Recognized(doc[c])))

\* A returned sequence of two descriptors, 2 before 10, from a document
\* that has 10 before 2.
C17_Witness ==
    \E c \in Conv :
        /\ Len(tools[c]) = 2
        /\ tools[c][1].toolId = MkId(0, <<2>>)
        /\ tools[c][2].toolId = MkId(0, <<1, 0>>)
        /\ doc[c].nodes[1].toolId = MkId(0, <<1, 0>>)

\* --------------------------------------------------------------------- C18
\* The elements of a sequence of nodes that have the kind and the value.
RECURSIVE OfKindAndValue(_, _, _)
OfKindAndValue(nodes, kind, v) ==
    IF nodes = <<>> THEN <<>>
    ELSE (IF nodes[1].type = kind /\ Value(nodes[1].toolId.digits) = v
          THEN <<nodes[1]>> ELSE <<>>)
             \o OfKindAndValue(Tail(nodes), kind, v)

\* The nodes behind the descriptors, in the order of the descriptors.
NodesOf(ts) == [j \in 1..Len(ts) |-> ts[j].xml_snippet]

\* The parser has returned the descriptors of a document with a container.
Parsed(c) == pc[c] \notin {"Idle", "Parsing", "Raised"} /\ doc[c].container = "present"

\* C18: steps with duplicate identifiers are all kept: every Select and
\* Filter step of the document has its descriptor, and on success its node;
\* the steps of one numeric value stand in extraction order, the Select
\* steps in document order before the Filter steps in document order.
C18_DuplicatesKept ==
    \A c \in Conv :
        Parsed(c) =>
            LET steps == Recognized(doc[c])
                kept == NodesOf(tools[c])
            IN  /\ Len(kept) = Len(steps)
                /\ \A j \in 1..Len(steps) : Count(steps[j], kept) = Count(steps[j], steps)
                /\ \A j \in 1..Len(steps) :
                      LET v == Value(steps[j].toolId.digits) IN
                      OfKindAndValue(kept, "Select", v) \o OfKindAndValue(kept, "Filter", v)
                          = OfKindAndValue(steps, "Select", v)
                                \o OfKindAndValue(steps, "Filter", v)
                /\ \A j \in 1..Len(kept) : \A k \in (j + 1)..Len(kept) :
                      Value(kept[j].toolId.digits) = Value(kept[k].toolId.digits)
                          => ~(kept[j].type = "Filter" /\ kept[k].type = "Select")
                /\ Succeeded(c) =>
                      /\ Len(sql_steps[c]) = Len(steps)
                      /\ NodeCount(result[c].sql) = Len(steps)

\* An emitted script of two nodes for a document that has a Filter 2 before
\* a Select 02: the Select comes first.
C18_Witness ==
    \E c \in Conv :
        /\ Succeeded(c)
        /\ doc[c].nodes = <<FilterNode(MkId(0, <<2>>), None), SelectNode(MkId(1, <<2>>), SwapFields)>>
        /\ tools[c][1].type = "Select"
        /\ Len(sql_steps[c]) = 2

\* --------------------------------------------------------------------- C19
\* The text of the call has no workflow container, or an empty one.
NoContainer(c) == doc[c].container \in {"absent", "empty"}

\* C19: when the workflow container is absent or empty, the parser returns
\* an empty sequence and a diagnostic, and the conversion returns that
\* diagnostic with empty sql, without a generation call and without
\* raising: the call goes from the parser straight to its return.
C19_StructuralError ==
    \A c \in Conv :
        NoContainer(c) =>
            /\ pc[c] \in {"Idle", "Parsing", "Done"}
            /\ calls[c] = <<>>
            /\ pc[c] = "Done" =>
                  /\ tools[c] = <<>>
                  /\ parse_message[c] # <<>>
                  /\ parse_message[c][1] = ERROR_PREFIX
                  /\ result[c].sql = <<>>
                  /\ result[c].message = parse_message[c]
                  /\ ~assembled[c]
                  /\ sql_steps[c] = <<>>

\* A returned call on a text that has Select and Filter nodes but no
\* workflow container around them.
C19_Witness ==
    \E c \in Conv :
        /\ pc[c] = "Done"
        /\ doc[c].container = "absent"
        /\ \E j \in 1..Len(doc[c].nodes) : IsRecognized(doc[c].nodes[j])
        /\ result[c].message = INVALID_MSG

\* --------------------------------------------------------------------- C20
UNSUPPORTED_PREFIX == Lit("Agent: I do not recognize or support the Alteryx tool type:")

\* The document with its unrecognized nodes taken out, the rest of the
\* container as it was.
WithoutUnrecognized(d) == Doc(d.container, SelectSeq(d.nodes, IsRecognized))

\* The texts that taking the unrecognized nodes out can leave: when no node
\* is left the container is empty unless it holds other text.
Removals(d) ==
    {WithoutUnrecognized(d)}
        \cup (IF /\ d.container = "present"
                 /\ d.nodes # <<>>
                 /\ WithoutUnrecognized(d).nodes = <<>>
              THEN {Doc("empty", <<>>)} ELSE {})

\* No descriptor is of another kind than Select and Filter, no call takes
\* the unsupported-kind branch, and unrecognized nodes alone give no error.
OnlySelectAndFilter(c) ==
    /\ \A j \in 1..Len(tools[c]) :
          /\ tools[c][j].type \in {"Select", "Filter"}
          /\ IsRecognized(tools[c][j].xml_snippet)
    /\ pc[c] = "Done" =>
          /\ UNSUPPORTED_PREFIX \notin Toks(result[c].message)
          /\ (doc[c].container = "present" /\ Recognized(doc[c]) = <<>>)
                => ~IsErrorMessage(result[c].message)

\* C20 as stated: nodes of unrecognized kinds are never extracted and give
\* no error, the unsupported-kind branch is never taken, and a document
\* with unrecognized nodes converts to the same result as the document
\* without them.
C20_AsStated ==
    \A c \in Conv :
        /\ OnlySelectAndFilter(c)
        /\ pc[c] = "Done" =>
              \A d \in Removals(doc[c]) : result[c] = ConvertAlone(d, responses[c])

\* C20 amended: as stated, for the document without the unrecognized nodes
\* whose container is not left empty.
C20_UnrecognizedVanish ==
    \A c \in Conv :
        /\ OnlySelectAndFilter(c)
        /\ pc[c] = "Done" =>
              result[c] = ConvertAlone(WithoutUnrecognized(doc[c]), responses[c])

\* An emitted script for a document of two nodes, one of them of an
\* unrecognized kind or with an identifier that is not a number.
C20_Witness ==
    \E c \in Conv :
        /\ Succeeded(c)
        /\ Len(doc[c].nodes) = 2
        /\ Len(WithoutUnrecognized(doc[c]).nodes) = 1
        /\ result[c].sql # <<>>

====
